---- MODULE Spec2Model ----
(***************************************************************************)
(* A model of CXmlExporter (skp_to_xml/common/XMLExporter.cpp): the        *)
(* Convert entry point, its phases, the recursive WriteEntities traversal  *)
(* and WriteFace, with every SU_CALL a point where the SDK may fail.       *)
(* The SDK object graph of the source file is an input (a scene); the XML  *)
(* writer, the inheritance manager, the statistics and the progress        *)
(* callback are collaborators, seen through the calls the exporter makes.  *)
(***************************************************************************)
EXTENDS Integers, Sequences, FiniteSets, TLC

\* How many times Convert is called on one exporter.
MaxConverts == 2

(***************************************************************************)
(* The SDK object graph read by the exporter.                              *)
(***************************************************************************)

\* A face as WriteFace reads it: validity, and its loops as vertex lists,
\* the outer loop first and the inner loops after it.
Face(valid, loops) == [valid |-> valid, loops |-> loops]

\* An entities collection as WriteEntities reads it.
Entities(inst, groups, faces, edges) ==
  [inst |-> inst, groups |-> groups, faces |-> faces, edges |-> edges]

\* A layer as WriteLayer / WriteMaterials read it.
Layer(valid, hasMat) == [valid |-> valid, hasMat |-> hasMat]

\* A model with component instances, a face with an inner loop, an invalid
\* face and a stand-alone edge at the root.
SceneFlat ==
  [ layers    |-> << Layer(TRUE, TRUE) >>,
    materials |-> << TRUE >>,
    texLayer  |-> 1,
    texModel  |-> 1,
    nodes     |-> << Entities(1, << >>,
                       << Face(TRUE, << <<1, 2, 3>>, <<4, 5>> >>),
                          Face(FALSE, << >>) >>, 1) >> ]

\* A model with nested groups: the root holds groups 2 and 3, group 2 holds
\* group 4.
SceneNested ==
  [ layers    |-> << Layer(TRUE, FALSE), Layer(FALSE, FALSE) >>,
    materials |-> << TRUE, FALSE >>,
    texLayer  |-> 0,
    texModel  |-> 1,
    nodes     |-> << Entities(1, <<2, 3>>, << Face(TRUE, << <<1, 2, 3>> >>) >>, 0),
                     Entities(0, <<4>>,    << Face(TRUE, << << >> >>) >>, 1),
                     Entities(1, << >>,    << >>, 0),
                     Entities(0, << >>,
                       << Face(TRUE, << <<6, 7>>, <<8>>, <<9, 10>> >>) >>, 0) >> ]

\* An empty model.
SceneEmpty ==
  [ layers    |-> << >>,
    materials |-> << >>,
    texLayer  |-> 0,
    texModel  |-> 0,
    nodes     |-> << Entities(0, << >>, << >>, 0) >> ]

Scenes == << SceneFlat, SceneNested, SceneEmpty >>

\* The configuration toggles of options_.
Options ==
  [ export_materials : BOOLEAN, export_layers : BOOLEAN, export_faces : BOOLEAN,
    export_edges : BOOLEAN, export_materials_by_layer : BOOLEAN ]

(***************************************************************************)
(* Calls on the collaborators, recorded in call order.                     *)
(***************************************************************************)

\* One call: its name, the function of the exporter that made it, the
\* entities collection it is about (0: none), an index or number argument,
\* a boolean argument and a list argument.
Ev(op, ph, node, a, flag, vs) ==
  [op |-> op, ph |-> ph, node |-> node, a |-> a, flag |-> flag, vs |-> vs]

Call(op, ph) == Ev(op, ph, 0, 0, FALSE, << >>)

VARIABLES
  pc,                    \* where Convert is ("idle": not running)
  calls,                 \* Convert calls made on this exporter
  options_,              \* the toggles
  src,                   \* the model of src_file (an index of Scenes)
  model_,                \* TRUE: a valid handle
  texture_writer_,       \* TRUE: a valid handle
  sdk_,                  \* TRUE: between SUInitialize and SUTerminate
  exported,              \* Convert's local, its return value once idle
  cancelled,             \* the progress callback's cancellation flag
  idx,                   \* loop index of WriteLayers / WriteMaterials
  stack,                 \* the WriteEntities activations, innermost last
  inheritance_manager_,  \* the pushed elements, innermost last
  stats_,                \* the export statistics
  entry,                 \* inheritance depth and statistics at Convert's entry
  out                    \* the calls made by the current Convert, in order

vars == << pc, calls, options_, src, model_, texture_writer_, sdk_, exported,
           cancelled, idx, stack, inheritance_manager_, stats_, entry, out >>

Scene == Scenes[src]

Node(n) == Scene.nodes[n]

Top == stack[Len(stack)]

(***************************************************************************)
(* The collaborators.                                                      *)
(***************************************************************************)

\* HandleProgress: hands the percentage to the progress callback.
HandleProgress(log, pct) == Append(log, Ev("HandleProgress", "Convert", 0, pct, FALSE, << >>))

\* IsCancelled: the callback's cancellation flag.
IsCancelled(flag) == flag

\* CInheritanceManager::PushElement / PopElement.
PushElement(s, e) == Append(s, e)

PopElement(s) == IF Len(s) = 0 THEN s ELSE SubSeq(s, 1, Len(s) - 1)

\* CXmlTextureHelper::LoadAllTextures: the number of textures loaded.
LoadAllTextures(by_layer) == IF by_layer THEN Scene.texLayer ELSE Scene.texModel

(***************************************************************************)
(* CXmlExporter.                                                           *)
(***************************************************************************)

Init ==
  /\ pc = "idle"
  /\ calls = 0
  /\ options_ \in Options
  /\ src \in 1..Len(Scenes)
  /\ model_ = FALSE
  /\ texture_writer_ = FALSE
  /\ sdk_ = FALSE
  /\ exported = FALSE
  /\ cancelled = FALSE
  /\ idx = 0
  /\ stack = << >>
  /\ inheritance_manager_ = << >>
  /\ stats_ = [textures |-> 0, layers |-> 0, faces |-> 0, edges |-> 0]
  /\ entry = [depth |-> 0, faces |-> 0, edges |-> 0]
  /\ out = << >>

\* An SU_CALL whose SDK call returned an error, after the calls of `log`: the
\* exception unwinds every activation up to the catch of Convert.
Throw(log) ==
  /\ pc' = "catch"
  /\ stack' = << >>
  /\ out' = Append(log, Call("throw", "SU_CALL"))

\* Convert is entered: SUInitialize, and the model handle is invalidated.
Convert ==
  /\ pc = "idle"
  /\ calls < MaxConverts
  /\ calls' = calls + 1
  /\ pc' = "load"
  /\ exported' = FALSE
  /\ cancelled' = FALSE
  /\ sdk_' = TRUE
  /\ model_' = FALSE
  /\ idx' = 0
  /\ stack' = << >>
  /\ entry' = [depth |-> Len(inheritance_manager_), faces |-> stats_.faces,
               edges |-> stats_.edges]
  /\ out' = << Call("SUInitialize", "Convert") >>
  /\ UNCHANGED << options_, src, texture_writer_, inheritance_manager_, stats_ >>

\* SU_CALL(SUModelCreateFromFile).
LoadModel ==
  /\ pc = "load"
  /\ \E ok \in BOOLEAN :
       IF ok
       THEN /\ model_' = TRUE
            /\ pc' = "texture_writer"
            /\ UNCHANGED << stack, out >>
       ELSE /\ Throw(out)
            /\ UNCHANGED model_
  /\ UNCHANGED << calls, options_, src, texture_writer_, sdk_, exported, cancelled,
                  idx, inheritance_manager_, stats_, entry >>

\* SUSetInvalid(texture_writer_); SU_CALL(SUTextureWriterCreate).
CreateTextureWriter ==
  /\ pc = "texture_writer"
  /\ \E ok \in BOOLEAN :
       IF ok
       THEN /\ texture_writer_' = TRUE
            /\ pc' = "open"
            /\ UNCHANGED << stack, out >>
       ELSE /\ texture_writer_' = FALSE
            /\ Throw(out)
  /\ UNCHANGED << calls, options_, src, model_, sdk_, exported, cancelled,
                  idx, inheritance_manager_, stats_, entry >>


\* ReleaseModelObjects: the calls it makes, after those of `log`.
ReleaseCalls(log) ==
  log \o (IF texture_writer_ THEN << Call("SUTextureWriterRelease", "ReleaseModelObjects") >>
                             ELSE << >>)
      \o (IF model_ THEN << Call("SUModelRelease", "ReleaseModelObjects") >> ELSE << >>)
      \o << Call("SUTerminate", "ReleaseModelObjects") >>

\* ReleaseModelObjects: both handles are released and invalidated, and the
\* SDK is terminated.
ReleaseModelObjects(log) ==
  /\ texture_writer_' = FALSE
  /\ model_' = FALSE
  /\ sdk_' = FALSE
  /\ out' = ReleaseCalls(Append(log, Call("ReleaseModelObjects", "Convert")))

\* file_.Open(dst_file, true) succeeds.
OpenFile ==
  /\ pc = "open"
  /\ pc' = "textures"
  /\ out' = Append(out, Ev("Open", "Convert", 0, 0, TRUE, << >>))
  /\ UNCHANGED << calls, options_, src, model_, texture_writer_, sdk_, exported,
                  cancelled, idx, stack, inheritance_manager_, stats_, entry >>

\* OpenFileFails with the early return forgetting ReleaseModelObjects.
OpenFileFailsNoRelease ==
  /\ pc = "open"
  /\ pc' = "idle"
  /\ out' = Append(out, Ev("Open", "Convert", 0, 0, FALSE, << >>))
  /\ UNCHANGED << calls, options_, src, model_, texture_writer_, sdk_, exported,
                  cancelled, idx, stack, inheritance_manager_, stats_, entry >>

\* file_.Open fails: ReleaseModelObjects, and Convert returns false.
OpenFileFails ==
  /\ pc = "open"
  /\ pc' = "idle"
  /\ ReleaseModelObjects(Append(out, Ev("Open", "Convert", 0, 0, FALSE, << >>)))
  /\ UNCHANGED << calls, options_, src, exported, cancelled, idx, stack,
                  inheritance_manager_, stats_, entry >>

\* The percentages Convert hands to HandleProgress.
PctTextures == 0
PctLayers == 10
PctMaterials == 20
PctGeometry == 60
PctComplete == 100

\* WriteTextureFiles runs its body.
TexturesEnabled == options_.export_materials

\* HandleProgress(0); WriteTextureFiles.
WriteTextureFiles ==
  /\ pc = "textures"
  /\ LET log == HandleProgress(out, PctTextures)
         n   == LoadAllTextures(options_.export_materials_by_layer)
     IN  IF TexturesEnabled
         THEN /\ stats_' = [stats_ EXCEPT !.textures = n]
              /\ IF n > 0
                 THEN \E ok \in BOOLEAN :
                        IF ok
                        THEN /\ pc' = "header"
                             /\ out' = Append(log, Ev("SUTextureWriterWriteAllTextures",
                                                      "WriteTextureFiles", 0, n, FALSE, << >>))
                             /\ UNCHANGED stack
                        ELSE Throw(log)
                 ELSE /\ pc' = "header"
                      /\ out' = log
                      /\ UNCHANGED stack
         ELSE /\ pc' = "header"
              /\ out' = log
              /\ UNCHANGED << stack, stats_ >>
  /\ UNCHANGED << calls, options_, src, model_, texture_writer_, sdk_, exported,
                  cancelled, idx, inheritance_manager_, entry >>

\* SU_CALL(SUModelGetVersion); file_.WriteHeader.
WriteHeader ==
  /\ pc = "header"
  /\ \E ok \in BOOLEAN :
       IF ok
       THEN /\ pc' = "layers"
            /\ out' = Append(out, Call("WriteHeader", "Convert"))
            /\ UNCHANGED stack
       ELSE Throw(out)
  /\ UNCHANGED << calls, options_, src, model_, texture_writer_, sdk_, exported,
                  cancelled, idx, inheritance_manager_, stats_, entry >>

\* LayersEnabled with the toggle ignored.
LayersAlways == TRUE

\* WriteLayers runs its body.
LayersEnabled == options_.export_layers

\* HandleProgress(10); WriteLayers up to its loop: StartLayers, then the
\* layers are fetched.
WriteLayers ==
  /\ pc = "layers"
  /\ LET log == HandleProgress(out, PctLayers)
     IN  IF LayersEnabled
         THEN \E ok \in BOOLEAN :
                IF ok
                THEN /\ pc' = "layer"
                     /\ idx' = 1
                     /\ out' = Append(log, Call("StartLayers", "WriteLayers"))
                     /\ UNCHANGED stack
                ELSE /\ Throw(Append(log, Call("StartLayers", "WriteLayers")))
                     /\ UNCHANGED idx
         ELSE /\ pc' = "materials"
              /\ out' = log
              /\ UNCHANGED << idx, stack >>
  /\ UNCHANGED << calls, options_, src, model_, texture_writer_, sdk_, exported,
                  cancelled, inheritance_manager_, stats_, entry >>

\* WriteLayer(layers[idx]): an invalid layer is skipped; a valid one is
\* counted and written, unless one of its SDK calls fails.
WriteLayer ==
  /\ pc = "layer"
  /\ idx <= Len(Scene.layers)
  /\ LET layer == Scene.layers[idx]
     IN  IF ~layer.valid
         THEN /\ idx' = idx + 1
              /\ UNCHANGED << pc, stack, out, stats_ >>
         ELSE \E ok \in BOOLEAN :
                IF ok
                THEN /\ idx' = idx + 1
                     /\ stats_' = [stats_ EXCEPT !.layers = @ + 1]
                     /\ out' = Append(out, Ev("WriteLayerInfo", "WriteLayers", 0, idx,
                                              layer.hasMat, << >>))
                     /\ UNCHANGED << pc, stack >>
                ELSE /\ Throw(out)
                     /\ UNCHANGED << idx, stats_ >>
  /\ UNCHANGED << calls, options_, src, model_, texture_writer_, sdk_, exported,
                  cancelled, inheritance_manager_, entry >>

\* The loop of WriteLayers is over: file_.PopParentNode.
WriteLayersEnd ==
  /\ pc = "layer"
  /\ idx > Len(Scene.layers)
  /\ pc' = "materials"
  /\ out' = Append(out, Call("PopParentNode", "WriteLayers"))
  /\ UNCHANGED << calls, options_, src, model_, texture_writer_, sdk_, exported,
                  cancelled, idx, stack, inheritance_manager_, stats_, entry >>

\* WriteMaterials runs its body.
MaterialsEnabled == options_.export_materials

\* The materials WriteMaterials writes: by layer, the material of each layer
\* that has one; otherwise the materials of the model. Each is named by where
\* it comes from and its index there.
MaterialCount ==
  IF options_.export_materials_by_layer THEN Len(Scene.layers) ELSE Len(Scene.materials)

\* HandleProgress(20); WriteMaterials up to its loop: the number of candidates
\* is read (ok), and StartMaterials comes after the layers are fetched, but
\* before the materials of the model are (got).
WriteMaterials ==
  /\ pc = "materials"
  /\ LET log == HandleProgress(out, PctMaterials)
     IN  IF MaterialsEnabled
         THEN \E ok \in BOOLEAN, got \in BOOLEAN :
                IF ~ok
                THEN /\ Throw(log)
                     /\ UNCHANGED idx
                ELSE IF MaterialCount = 0
                THEN /\ pc' = "geometry"
                     /\ out' = log
                     /\ UNCHANGED << idx, stack >>
                ELSE IF got \/ options_.export_materials_by_layer
                THEN /\ pc' = "material"
                     /\ idx' = 1
                     /\ out' = Append(log, Call("StartMaterials", "WriteMaterials"))
                     /\ UNCHANGED stack
                ELSE /\ Throw(Append(log, Call("StartMaterials", "WriteMaterials")))
                     /\ UNCHANGED idx
         ELSE /\ pc' = "geometry"
              /\ out' = log
              /\ UNCHANGED << idx, stack >>
  /\ UNCHANGED << calls, options_, src, model_, texture_writer_, sdk_, exported,
                  cancelled, inheritance_manager_, stats_, entry >>

\* Whether the idx-th candidate yields a material record: a layer yields one
\* when SULayerGetMaterial succeeds, a model material when it is valid.
HasMaterial(i) ==
  IF options_.export_materials_by_layer THEN Scene.layers[i].hasMat ELSE Scene.materials[i]

\* One round of the loop of WriteMaterials: WriteMaterial.
WriteMaterial ==
  /\ pc = "material"
  /\ idx <= MaterialCount
  /\ IF ~HasMaterial(idx)
     THEN /\ idx' = idx + 1
          /\ UNCHANGED << pc, stack, out >>
     ELSE \E ok \in BOOLEAN :
            IF ok
            THEN /\ idx' = idx + 1
                 /\ out' = Append(out, Ev("WriteMaterialInfo", "WriteMaterials", 0, idx,
                                          options_.export_materials_by_layer, << >>))
                 /\ UNCHANGED << pc, stack >>
            ELSE /\ Throw(out)
                 /\ UNCHANGED idx
  /\ UNCHANGED << calls, options_, src, model_, texture_writer_, sdk_, exported,
                  cancelled, inheritance_manager_, stats_, entry >>

\* The loop of WriteMaterials is over: file_.PopParentNode.
WriteMaterialsEnd ==
  /\ pc = "material"
  /\ idx > MaterialCount
  /\ pc' = "geometry"
  /\ out' = Append(out, Call("PopParentNode", "WriteMaterials"))
  /\ UNCHANGED << calls, options_, src, model_, texture_writer_, sdk_, exported,
                  cancelled, idx, stack, inheritance_manager_, stats_, entry >>


(***************************************************************************)
(* WriteGeometry, WriteEntities, WriteFace.                                *)
(***************************************************************************)

\* SectionOrder with the face section moved before the group section.
SectionOrderFacesFirst == << "instances", "faces", "groups" >>

\* The sections of WriteEntities, in the order of its body.
SectionOrder == << "instances", "groups", "faces" >>

\* The section after `st`, or "return" after the last one.
After(st) ==
  LET k == CHOOSE n \in 1..Len(SectionOrder) : SectionOrder[n] = st
  IN  IF k < Len(SectionOrder) THEN SectionOrder[k + 1] ELSE "return"

\* An activation of WriteEntities(node): the section it is in, the loop index
\* of that section, the loop index of WriteFace, and the depth of the
\* inheritance stack when it was entered.
Frame(node, d) == [node |-> node, st |-> SectionOrder[1], i |-> 1, j |-> 1, d |-> d]

SetTop(f) == [stack EXCEPT ![Len(stack)] = f]

\* WriteGeometry runs its body.
GeometryEnabled == options_.export_faces \/ options_.export_edges

\* The faces section of WriteEntities runs.
FacesEnabled == options_.export_faces

\* HandleProgress(60); WriteGeometry up to its call of WriteEntities.
WriteGeometry ==
  /\ pc = "geometry"
  /\ LET log == HandleProgress(out, PctGeometry)
     IN  IF GeometryEnabled
         THEN \E ok \in BOOLEAN :
                IF ok
                THEN /\ pc' = "entities"
                     /\ stack' = << Frame(1, Len(inheritance_manager_)) >>
                     /\ out' = Append(log, Call("StartGeometry", "WriteGeometry"))
                ELSE Throw(log)
         ELSE /\ pc' = "close"
              /\ out' = log
              /\ UNCHANGED stack
  /\ UNCHANGED << calls, options_, src, model_, texture_writer_, sdk_, exported,
                  cancelled, idx, inheritance_manager_, stats_, entry >>

\* The SU_CALL that reads the size of a section (SUEntitiesGetNumInstances,
\* SUEntitiesGetNumGroups, SUEntitiesGetNumFaces) fails.
SectionFails ==
  /\ pc = "entities"
  /\ Top.i = 1
  /\ \/ Top.st \in {"instances", "groups"}
     \/ Top.st = "faces" /\ FacesEnabled
  /\ Throw(out)
  /\ UNCHANGED << calls, options_, src, model_, texture_writer_, sdk_, exported,
                  cancelled, idx, inheritance_manager_, stats_, entry >>

\* One round of the component instance loop.
WriteInstance ==
  /\ pc = "entities"
  /\ Top.st = "instances"
  /\ Top.i <= Node(Top.node).inst
  /\ \E ok \in BOOLEAN :
       IF ok
       THEN /\ stack' = SetTop([Top EXCEPT !.i = @ + 1])
            /\ out' = Append(out, Ev("WriteComponentInstanceInfo", "WriteEntities",
                                     Top.node, Top.i, FALSE, << >>))
            /\ UNCHANGED pc
       ELSE Throw(out)
  /\ UNCHANGED << calls, options_, src, model_, texture_writer_, sdk_, exported,
                  cancelled, idx, inheritance_manager_, stats_, entry >>

\* The component instance loop is over.
InstancesDone ==
  /\ pc = "entities"
  /\ Top.st = "instances"
  /\ Top.i > Node(Top.node).inst
  /\ stack' = SetTop([Top EXCEPT !.st = After("instances"), !.i = 1])
  /\ UNCHANGED << pc, calls, options_, src, model_, texture_writer_, sdk_, exported,
                  cancelled, idx, inheritance_manager_, stats_, entry, out >>

\* A round of the group loop up to the recursive call: SU_CALL(SUGroupGetEntities),
\* PushElement(group), StartGroup, WriteEntities(group_entities).
EnterGroup ==
  /\ pc = "entities"
  /\ Top.st = "groups"
  /\ Top.i <= Len(Node(Top.node).groups)
  /\ LET g == Node(Top.node).groups[Top.i]
     IN  \E ok \in BOOLEAN :
           IF ok
           THEN /\ inheritance_manager_' = PushElement(inheritance_manager_, << "group", g >>)
                /\ stack' = Append(SetTop([Top EXCEPT !.st = "in_group"]),
                                 Frame(g, Len(inheritance_manager_) + 1))
                /\ out' = out \o << Ev("PushElement", "WriteEntities", Top.node, g, FALSE, << >>),
                                    Ev("StartGroup", "WriteEntities", Top.node, g, FALSE, << >>) >>
                /\ UNCHANGED pc
           ELSE /\ Throw(out)
                /\ UNCHANGED inheritance_manager_
  /\ UNCHANGED << calls, options_, src, model_, texture_writer_, sdk_, exported,
                  cancelled, idx, stats_, entry >>

\* WriteEntities(group_entities) returns to the group loop of its caller.
ReturnFromGroup ==
  /\ pc = "entities"
  /\ Top.st = "return"
  /\ Len(stack) > 1
  /\ stack' = SubSeq(stack, 1, Len(stack) - 1)
  /\ UNCHANGED << pc, calls, options_, src, model_, texture_writer_, sdk_, exported,
                  cancelled, idx, inheritance_manager_, stats_, entry, out >>

\* The rest of a round of the group loop: SU_CALL(SUGroupGetTransform),
\* WriteTransformation, PopParentNode, PopElement.
LeaveGroup ==
  /\ pc = "entities"
  /\ Top.st = "in_group"
  /\ LET g == Node(Top.node).groups[Top.i]
     IN  \E ok \in BOOLEAN :
           IF ok
           THEN /\ inheritance_manager_' = PopElement(inheritance_manager_)
                /\ stack' = SetTop([Top EXCEPT !.st = "groups", !.i = @ + 1])
                /\ out' = out \o << Ev("WriteTransformation", "WriteEntities", Top.node, g, FALSE, << >>),
                                    Ev("PopParentNode", "WriteEntities", Top.node, g, FALSE, << >>),
                                    Ev("PopElement", "WriteEntities", Top.node, g, FALSE, << >>) >>
                /\ UNCHANGED pc
           ELSE /\ Throw(out)
                /\ UNCHANGED inheritance_manager_
  /\ UNCHANGED << calls, options_, src, model_, texture_writer_, sdk_, exported,
                  cancelled, idx, stats_, entry >>

\* The group loop is over.
GroupsDone ==
  /\ pc = "entities"
  /\ Top.st = "groups"
  /\ Top.i > Len(Node(Top.node).groups)
  /\ stack' = SetTop([Top EXCEPT !.st = After("groups"), !.i = 1])
  /\ UNCHANGED << pc, calls, options_, src, model_, texture_writer_, sdk_, exported,
                  cancelled, idx, inheritance_manager_, stats_, entry, out >>

\* A round of the face loop up to the body of WriteFace: PushElement(faces[i]),
\* and WriteFace returns at once for an invalid face.
BeginFace ==
  /\ pc = "entities"
  /\ Top.st = "faces"
  /\ FacesEnabled
  /\ Top.i <= Len(Node(Top.node).faces)
  /\ LET face == Node(Top.node).faces[Top.i]
     IN  stack' = SetTop([Top EXCEPT !.st = IF face.valid THEN "loops" ELSE "end_face",
                                     !.j = 1])
  /\ inheritance_manager_' = PushElement(inheritance_manager_, << "face", Top.i >>)
  /\ out' = Append(out, Ev("PushElement", "WriteEntities", Top.node, Top.i, TRUE, << >>))
  /\ UNCHANGED << pc, calls, options_, src, model_, texture_writer_, sdk_, exported,
                  cancelled, idx, stats_, entry >>

\* RecordVertices with the vertex loop stopping one short.
RecordVerticesShort(loop) ==
  IF Len(loop) = 0 THEN loop ELSE SubSeq(loop, 1, Len(loop) - 1)

\* The vertices WriteFace puts in the record of a loop: one for each vertex
\* of the loop, in loop order.
RecordVertices(loop) == [k \in 1..Len(loop) |-> loop[k]]

\* What stats_.AddFace does to the face counter.
AddFace(n) == n + 1

\* WriteFace, one loop: the outer loop (j = 1) or an inner loop. Its vertices
\* are read, then AddFace and WriteFaceInfo.
WriteFaceLoop ==
  /\ pc = "entities"
  /\ Top.st = "loops"
  /\ LET face == Node(Top.node).faces[Top.i]
     IN  \E ok \in BOOLEAN :
           IF ok
           THEN /\ stats_' = [stats_ EXCEPT !.faces = AddFace(@)]
                /\ out' = Append(out, Ev("WriteFaceInfo", "WriteFace", Top.node, Top.i,
                                         TRUE, RecordVertices(face.loops[Top.j])))
                /\ stack' = SetTop([Top EXCEPT !.j = @ + 1,
                                     !.st = IF Top.j < Len(face.loops) THEN "loops"
                                                                        ELSE "end_face"])
                /\ UNCHANGED pc
           ELSE /\ Throw(out)
                /\ UNCHANGED stats_
  /\ UNCHANGED << calls, options_, src, model_, texture_writer_, sdk_, exported,
                  cancelled, idx, inheritance_manager_, entry >>

\* SU_CALL(SUFaceGetNumInnerLoops) fails on a face without inner loops, after
\* the record of its outer loop.
InnerLoopsFail ==
  /\ pc = "entities"
  /\ Top.st = "end_face"
  /\ LET face == Node(Top.node).faces[Top.i]
     IN  face.valid /\ Len(face.loops) = 1
  /\ Throw(out)
  /\ UNCHANGED << calls, options_, src, model_, texture_writer_, sdk_, exported,
                  cancelled, idx, inheritance_manager_, stats_, entry >>

\* WriteFace has returned: PopElement, and the next round of the face loop.
EndFace ==
  /\ pc = "entities"
  /\ Top.st = "end_face"
  /\ inheritance_manager_' = PopElement(inheritance_manager_)
  /\ stack' = SetTop([Top EXCEPT !.st = "faces", !.i = @ + 1])
  /\ out' = Append(out, Ev("PopElement", "WriteEntities", Top.node, Top.i, TRUE, << >>))
  /\ UNCHANGED << pc, calls, options_, src, model_, texture_writer_, sdk_, exported,
                  cancelled, idx, stats_, entry >>

\* The face section is over, or is switched off.
FacesDone ==
  /\ pc = "entities"
  /\ Top.st = "faces"
  /\ ~FacesEnabled \/ Top.i > Len(Node(Top.node).faces)
  /\ stack' = SetTop([Top EXCEPT !.st = After("faces"), !.i = 1])
  /\ UNCHANGED << pc, calls, options_, src, model_, texture_writer_, sdk_, exported,
                  cancelled, idx, inheritance_manager_, stats_, entry, out >>

\* WriteEntities(model_entities) returns to WriteGeometry: PopParentNode.
WriteGeometryEnd ==
  /\ pc = "entities"
  /\ Top.st = "return"
  /\ Len(stack) = 1
  /\ pc' = "close"
  /\ stack' = << >>
  /\ out' = Append(out, Call("PopParentNode", "WriteGeometry"))
  /\ UNCHANGED << calls, options_, src, model_, texture_writer_, sdk_, exported,
                  cancelled, idx, inheritance_manager_, stats_, entry >>

(***************************************************************************)
(* The end of Convert.                                                     *)
(***************************************************************************)

\* CloseArg with the cancellation flag ignored.
CloseArgComplete == FALSE

\* The argument of file_.Close after the geometry phase.
CloseArg == IsCancelled(cancelled)

\* CatchCloseArg with the file closed as complete.
CatchCloseArgComplete == FALSE

\* The argument of file_.Close in the catch block.
CatchCloseArg == TRUE

\* file_.Close(IsCancelled(progress_callback)).
CloseFile ==
  /\ pc = "close"
  /\ pc' = "complete"
  /\ out' = Append(out, Ev("Close", "Convert", 0, 0, CloseArg, << >>))
  /\ UNCHANGED << calls, options_, src, model_, texture_writer_, sdk_, exported,
                  cancelled, idx, stack, inheritance_manager_, stats_, entry >>

\* Complete with the last progress step left out.
CompleteSilent ==
  /\ pc = "complete"
  /\ pc' = "release"
  /\ exported' = TRUE
  /\ UNCHANGED << calls, options_, src, model_, texture_writer_, sdk_,
                  cancelled, idx, stack, inheritance_manager_, stats_, entry, out >>

\* HandleProgress(100); exported = true.
Complete ==
  /\ pc = "complete"
  /\ pc' = "release"
  /\ exported' = TRUE
  /\ out' = HandleProgress(out, PctComplete)
  /\ UNCHANGED << calls, options_, src, model_, texture_writer_, sdk_,
                  cancelled, idx, stack, inheritance_manager_, stats_, entry >>

\* catch(...): exported = false; file_.Close(true).
Catch ==
  /\ pc = "catch"
  /\ pc' = "release"
  /\ exported' = FALSE
  /\ out' = Append(out, Ev("Close", "catch", 0, 0, CatchCloseArg, << >>))
  /\ UNCHANGED << calls, options_, src, model_, texture_writer_, sdk_,
                  cancelled, idx, stack, inheritance_manager_, stats_, entry >>

\* ReleaseModelObjects(); return exported.
Release ==
  /\ pc = "release"
  /\ pc' = "idle"
  /\ ReleaseModelObjects(out)
  /\ UNCHANGED << calls, options_, src, exported, cancelled, idx, stack,
                  inheritance_manager_, stats_, entry >>

\* The caller signals cancellation through the progress callback while
\* Convert runs.
Cancel ==
  /\ pc # "idle"
  /\ ~cancelled
  /\ cancelled' = TRUE
  /\ UNCHANGED << pc, calls, options_, src, model_, texture_writer_, sdk_, exported,
                  idx, stack, inheritance_manager_, stats_, entry, out >>

Next ==
  \/ Convert \/ LoadModel \/ CreateTextureWriter \/ OpenFile \/ OpenFileFails
  \/ WriteTextureFiles \/ WriteHeader
  \/ WriteLayers \/ WriteLayer \/ WriteLayersEnd
  \/ WriteMaterials \/ WriteMaterial \/ WriteMaterialsEnd
  \/ WriteGeometry \/ SectionFails \/ WriteInstance \/ InstancesDone
  \/ EnterGroup \/ ReturnFromGroup \/ LeaveGroup \/ GroupsDone
  \/ BeginFace \/ WriteFaceLoop \/ InnerLoopsFail \/ EndFace \/ FacesDone
  \/ WriteGeometryEnd
  \/ CloseFile \/ Complete \/ Catch \/ Release \/ Cancel

Spec == Init /\ [][Next]_vars


(***************************************************************************)
(* Reading the calls of a Convert.                                         *)
(***************************************************************************)

Ops(log, op) == SelectSeq(log, LAMBDA e : e.op = op)

Count(op) == Len(Ops(out, op))

Has(op) == \E k \in 1..Len(out) : out[k].op = op

Last(s) == s[Len(s)]

IsPrefix(s, t) == Len(s) <= Len(t) /\ s = SubSeq(t, 1, Len(s))

\* Convert has returned.
Returned == pc = "idle" /\ calls > 0

\* An SU_CALL failed in the current Convert.
Thrown == Has("throw")

\* The percentages handed to the progress callback, in order.
ProgressSeq ==
  LET p == Ops(out, "HandleProgress") IN [k \in 1..Len(p) |-> p[k].a]

(***************************************************************************)
(* The claims.                                                             *)
(***************************************************************************)

\* C1: whichever way a Convert call ends (success, the early return when the
\* destination file cannot be opened, an SDK call failing), the SDK session it
\* opened is released exactly once before it returns: ReleaseModelObjects has
\* not run while Convert is running, has run exactly once when it returns, the
\* SDK was initialised once and terminated once, no handle is released twice,
\* and on return the model handle and the texture writer handle are invalid
\* and the SDK is terminated.
C1_ReleasedExactlyOnce ==
  /\ pc # "idle" => Count("ReleaseModelObjects") = 0 /\ Count("SUTerminate") = 0
  /\ Returned =>
       /\ Count("SUInitialize") = 1
       /\ Count("ReleaseModelObjects") = 1
       /\ Count("SUTerminate") = 1
       /\ Count("SUModelRelease") <= 1
       /\ Count("SUTextureWriterRelease") <= 1
       /\ ~model_ /\ ~texture_writer_ /\ ~sdk_

\* C1's case: a Convert that loaded the model, then failed in an SDK call, has
\* returned with the model released.
C1_Witness ==
  /\ Returned /\ Thrown /\ ~exported
  /\ Count("SUModelRelease") = 1 /\ Count("SUTextureWriterRelease") = 1

\* C2: once an SU_CALL has failed in a Convert, the next call on the writer is
\* file_.Close(true) from the catch block, nothing is written after it, the
\* 100% step is never reported, and Convert releases the SDK resources and
\* returns false.
C2_FailureClosesCancelled ==
  Thrown =>
    /\ pc \in {"catch", "release", "idle"}
    /\ ~exported
    /\ LET p == ProgressSeq IN \A k \in 1..Len(p) : p[k] # 100
    /\ Count("throw") = 1
    /\ LET t == CHOOSE k \in 1..Len(out) : out[k].op = "throw"
       IN  /\ pc = "catch" => t = Len(out)
           /\ pc \in {"release", "idle"} =>
                /\ Len(out) > t
                /\ out[t + 1].op = "Close" /\ out[t + 1].flag = TRUE
                /\ \A k \in (t + 2)..Len(out) : out[k].ph = "ReleaseModelObjects"
                                                 \/ out[k].op = "ReleaseModelObjects"
           /\ pc = "idle" => Count("ReleaseModelObjects") = 1 /\ ~model_
                             /\ ~texture_writer_ /\ ~sdk_

\* C2's case: a Convert whose SDK call failed inside the geometry traversal
\* has returned.
C2_Witness ==
  /\ Returned /\ Thrown
  /\ Has("StartGroup") /\ Has("WriteFaceInfo")

\* C3: the percentages handed to the progress callback within one Convert are
\* strictly increasing and lie in 0..100; they are 0, 10, 20, 60, 100 when
\* Convert returns true, and a prefix of that without 100 when it returns
\* false.
C3_ProgressMonotone ==
  LET p == ProgressSeq
  IN  /\ \A k \in 1..Len(p) : p[k] \in 0..100
      /\ \A k \in 1..(Len(p) - 1) : p[k] < p[k + 1]
      /\ IsPrefix(p, << 0, 10, 20, 60, 100 >>)
      /\ Returned /\ exported => p = << 0, 10, 20, 60, 100 >>
      /\ Returned /\ ~exported => \A k \in 1..Len(p) : p[k] # 100

\* C3's case: a Convert has returned true.
C3_Witness == Returned /\ exported /\ Len(ProgressSeq) = 5


\* The phase of Convert a call on the writers belongs to (0: none of them).
Rank(e) ==
  CASE e.op = "SUTextureWriterWriteAllTextures" -> 1
    [] e.op = "WriteHeader" -> 2
    [] e.ph = "WriteLayers" -> 3
    [] e.ph = "WriteMaterials" -> 4
    [] e.ph \in {"WriteGeometry", "WriteEntities", "WriteFace"} -> 5
    [] e.op = "Close" -> 6
    [] OTHER -> 0

RECURSIVE Desc(_)
\* The entities collections of the subtree of collection n.
Desc(n) ==
  {n} \cup UNION {Desc(Node(n).groups[k]) : k \in 1..Len(Node(n).groups)}

\* Where collection n's component instance records, group loop calls and face
\* records are among the calls.
InstanceCalls(n) ==
  {k \in 1..Len(out) : out[k].op = "WriteComponentInstanceInfo" /\ out[k].node = n}

GroupCalls(n) ==
  {k \in 1..Len(out) : out[k].op \in {"StartGroup", "WriteTransformation"} /\ out[k].node = n}

FaceCalls(n) ==
  {k \in 1..Len(out) : out[k].op = "WriteFaceInfo" /\ out[k].node = n}

\* Every call of A comes before every call of B.
Before(A, B) == \A x \in A, y \in B : x < y

\* Group g of collection n is completely written: it was started once, its
\* transformation was written once and later, and every call about a
\* collection of its subtree lies between the two.
GroupWritten(n, g) ==
  LET S == {k \in GroupCalls(n) : out[k].op = "StartGroup" /\ out[k].a = g}
      T == {k \in GroupCalls(n) : out[k].op = "WriteTransformation" /\ out[k].a = g}
      D == Desc(g)
  IN  /\ Cardinality(S) = 1 /\ Cardinality(T) = 1
      /\ Before(S, T)
      /\ \A m \in 1..Len(out) : out[m].node \in D => Before(S, {m}) /\ Before({m}, T)

\* The phases of the calls of Convert, in call order.
Ranks ==
  LET r == [k \in 1..Len(out) |-> Rank(out[k])]
  IN  SelectSeq(r, LAMBDA x : x > 0)

\* C4: the calls of a Convert come in a fixed order: texture files, header,
\* layers, materials, geometry, close, each phase after the previous one is
\* over; and in every entities collection all component instance records are
\* written before any group of it is entered, and every group of it is
\* completely written (its contents, then its transformation) before any face
\* record of the collection. The calls of a Convert are only ever added to, so
\* the order inside the collections is read off the calls of a returned
\* Convert, whether it succeeded or failed part of the way.
C4_FixedOrder ==
  /\ LET r == Ranks
     IN  \A k \in 1..(Len(r) - 1) : r[k] <= r[k + 1]
  /\ Returned => \A n \in 1..Len(Scene.nodes) :
       /\ Before(InstanceCalls(n), GroupCalls(n))
       /\ Before(InstanceCalls(n), FaceCalls(n))
       /\ Before(GroupCalls(n), FaceCalls(n))
       /\ GroupCalls(n) # {} \/ FaceCalls(n) # {} =>
            Cardinality(InstanceCalls(n)) = Node(n).inst
       /\ FaceCalls(n) # {} =>
            \A x \in 1..Len(Node(n).groups) : GroupWritten(n, Node(n).groups[x])

\* C4's case: the nested model was exported with every toggle on, through all
\* its groups and faces.
C4_Witness ==
  /\ Returned /\ exported
  /\ Has("SUTextureWriterWriteAllTextures") /\ Has("WriteLayerInfo")
  /\ Has("WriteMaterialInfo")
  /\ Count("StartGroup") = 3 /\ Count("WriteFaceInfo") = 5
  /\ Count("WriteComponentInstanceInfo") = 2

\* The progress steps and the header of the phases before the close.
PhasesRan ==
  /\ IsPrefix(<< 0, 10, 20, 60 >>, ProgressSeq)
  /\ Has("WriteHeader")

IsWrite(e) ==
  e.op \in {"SUTextureWriterWriteAllTextures", "WriteHeader", "StartLayers",
            "WriteLayerInfo", "StartMaterials", "WriteMaterialInfo", "StartGeometry",
            "WriteComponentInstanceInfo", "StartGroup", "WriteTransformation",
            "WriteFaceInfo", "WriteEdgeInfo", "PopParentNode"}

\* The material records a complete materials phase writes: by layer, one for
\* each layer that has a material; otherwise one for each valid material of
\* the model.
ExpectedMaterials ==
  IF options_.export_materials_by_layer
  THEN SelectSeq([k \in 1..Len(Scene.layers) |-> k], LAMBDA k : Scene.layers[k].hasMat)
  ELSE SelectSeq([k \in 1..Len(Scene.materials) |-> k], LAMBDA k : Scene.materials[k])

MaterialRecords ==
  LET r == Ops(out, "WriteMaterialInfo") IN [k \in 1..Len(r) |-> r[k].a]

\* C6: each kind of output is produced only when its toggle is on: texture
\* files only with export_materials (and a texture loaded), the layers section
\* only with export_layers, the materials section only with export_materials,
\* its records taken from the layers when export_materials_by_layer is on and
\* from the model's materials otherwise, the geometry section only with
\* export_faces or export_edges, face records only with export_faces; with
\* every toggle off a Convert that returns true has written only the header.
C6_TogglesGateOutput ==
  /\ Has("SUTextureWriterWriteAllTextures") =>
       /\ options_.export_materials
       /\ (IF options_.export_materials_by_layer THEN Scene.texLayer ELSE Scene.texModel) > 0
  /\ (\E k \in 1..Len(out) : out[k].ph = "WriteLayers") => options_.export_layers
  /\ (\E k \in 1..Len(out) : out[k].ph = "WriteMaterials") => options_.export_materials
  /\ \A k \in 1..Len(out) :
       out[k].op = "WriteMaterialInfo" => out[k].flag = options_.export_materials_by_layer
  /\ IsPrefix(MaterialRecords, ExpectedMaterials)
  /\ Returned /\ exported /\ options_.export_materials => MaterialRecords = ExpectedMaterials
  /\ (\E k \in 1..Len(out) : out[k].ph \in {"WriteGeometry", "WriteEntities", "WriteFace"})
       => options_.export_faces \/ options_.export_edges
  /\ Has("WriteFaceInfo") => options_.export_faces
  /\ ( /\ Returned /\ exported
       /\ ~options_.export_materials /\ ~options_.export_layers /\ ~options_.export_faces
       /\ ~options_.export_edges /\ ~options_.export_materials_by_layer )
       => SelectSeq(out, IsWrite) = << Call("WriteHeader", "Convert") >>

\* C6's case: with materials by layer and edges on, layers and faces off, a
\* Convert has written the texture files, the material of a layer and a
\* geometry section with a component instance and no face.
C6_Witness ==
  /\ Returned /\ exported
  /\ options_.export_materials /\ options_.export_materials_by_layer
  /\ ~options_.export_layers /\ ~options_.export_faces /\ options_.export_edges
  /\ Has("SUTextureWriterWriteAllTextures")
  /\ MaterialRecords = << 1 >>
  /\ Has("WriteComponentInstanceInfo")


RECURSIVE EdgesUpTo(_)
\* The edges of the first n entities collections of the model.
EdgesUpTo(n) == IF n = 0 THEN 0 ELSE Node(n).edges + EdgesUpTo(n - 1)

\* C7: with export_edges on, a Convert that returns true has written an edge
\* record for the edges of every entities collection it walked (the root and
\* every nested group), and has counted in the statistics as many edges as it
\* wrote edge records.
C7_EdgesExported ==
  Returned /\ exported /\ options_.export_edges =>
    /\ Count("WriteEdgeInfo") = EdgesUpTo(Len(Scene.nodes))
    /\ stats_.edges - entry.edges = Count("WriteEdgeInfo")

\* The calls that open a parent node of the XML writer.
XmlStarts ==
  Len(SelectSeq(out, LAMBDA e : e.op \in {"StartLayers", "StartMaterials",
                                           "StartGeometry", "StartGroup"}))

\* Pushes and pops follow the descent, counted from the depth `base` of the
\* inheritance stack under the traversal: while a face is written the depth is
\* base plus the enclosing groups plus one, every group entered has pushed one
\* element, WriteEntities returns at the depth it was entered at, and once the
\* traversal is over the pushes equal the pops and the XML writer's parent
\* nodes are all popped.
Nested(base) ==
  /\ pc = "entities" =>
       /\ Top.st \in {"loops", "end_face"} =>
            Len(inheritance_manager_) = base + (Len(stack) - 1) + 1
       /\ Top.st = "return" => Len(inheritance_manager_) = Top.d
       /\ \A k \in 2..Len(stack) : stack[k].d = stack[k - 1].d + 1
  /\ Count("PopElement") <= Count("PushElement")
  /\ Count("PopParentNode") <= XmlStarts
  /\ pc \in {"close", "complete", "release", "idle"} =>
       /\ Count("PopElement") = Count("PushElement")
       /\ Count("PopParentNode") = XmlStarts

\* C8: during a traversal in which no SDK call fails, pushes and pops of the
\* inheritance context are nested with the descent, so that while a face is
\* written the inheritance stack depth is the number of enclosing groups plus
\* one, the depth on return from WriteEntities is the depth on entry, and the
\* XML writer's parent node stack is balanced.
C8_BalancedNesting == ~Thrown => Nested(0)

\* What holds of C8 on any exporter: the same nesting, counted from the depth
\* the inheritance stack had when Convert was entered.
NestedFromEntry == ~Thrown => Nested(entry.depth)

\* The face records of face i of collection n, in call order.
FaceRecords(n, i) ==
  SelectSeq(out, LAMBDA e : e.op = "WriteFaceInfo" /\ e.node = n /\ e.a = i)

\* WriteFace(face i of collection n) has returned.
FaceWritten(n, i) ==
  \E k \in 1..Len(out) :
    out[k].op = "PopElement" /\ out[k].flag /\ out[k].node = n /\ out[k].a = i

\* The records of every face: an invalid face has none; a valid face has the
\* record of its outer loop first and then those of its inner loops in loop
\* order, 1 + k of them once WriteFace has returned, each marked single-loop
\* and holding the vertices of its loop in loop order.
RecordsPerLoop ==
  \A n \in 1..Len(Scene.nodes) : \A i \in 1..Len(Node(n).faces) :
    LET face == Node(n).faces[i]
        recs == FaceRecords(n, i)
    IN  /\ \A k \in 1..Len(recs) : recs[k].flag
        /\ ~face.valid => recs = << >>
        /\ face.valid => IsPrefix([k \in 1..Len(recs) |-> recs[k].vs], face.loops)
        /\ face.valid /\ FaceWritten(n, i) => Len(recs) = Len(face.loops)

\* C9, as stated: the records of every face are those of RecordsPerLoop, and
\* after a Convert that returns true the face counter of the statistics
\* equals the number of face records in the output.
C9_CounterEqualsRecords ==
  /\ RecordsPerLoop
  /\ Returned /\ exported => stats_.faces = Count("WriteFaceInfo")

\* C9, amended: the records of every face are those of RecordsPerLoop, and the
\* face counter is incremented once per record written: at every point of a
\* Convert it has grown, since Convert was entered, by the number of face
\* records written so far.
C9_CounterGrowsByRecords ==
  /\ RecordsPerLoop
  /\ stats_.faces - entry.faces = Count("WriteFaceInfo")

\* C9's case: a second Convert on the exporter has returned true after writing
\* the five face records of the three valid faces of the nested model, the
\* counter holding the records of the first Convert as well.
C9_Witness ==
  /\ Returned /\ exported
  /\ Count("WriteFaceInfo") = 5
  /\ FaceWritten(4, 1) /\ Len(FaceRecords(4, 1)) = 3
  /\ entry.faces > 0

\* C10: the inheritance context does not leak out of a Convert: when Convert
\* returns, also after an SDK call failed inside a group or a face, there were
\* as many PopElement as PushElement calls and the inheritance stack is as
\* deep as when Convert was entered, so every Convert on the exporter starts
\* from an empty context.
C10_NoLeak ==
  /\ Returned =>
       /\ Count("PopElement") = Count("PushElement")
       /\ Len(inheritance_manager_) = entry.depth
  /\ entry.depth = 0

====
